---- MODULE Spec2Model ----
(***************************************************************************)
(* Model of simulate() in privacysim.py: a discrete-time stepper over the  *)
(* power shares A (individuals), C (corporations), S (state) and the PET   *)
(* adoption rate P.                                                        *)
(*                                                                         *)
(* Python floats are modelled as decimal fixed-point numbers: the integer  *)
(* n stands for the value n / SCALE.  Every multiplication and division    *)
(* rounds its result to the nearest representable value, as a float        *)
(* operation does; addition, subtraction and negation are exact.           *)
(***************************************************************************)
EXTENDS Integers, Sequences, FiniteSets

VARIABLES
    p_indiv0, p_corp0, p_state0, pet0,     \* arguments: initial shares and PET adoption
    timesteps, step,                       \* arguments: loop count and dynamics speed
    reg_strength, sec_pressure,            \* arguments: the four dials
    innovation, pet_efficiency,
    A, C, S, P,                            \* locals: shares and PET adoption
    delta_C, delta_S, delta_A, total,      \* locals of the loop body
    t,                                     \* loop variable
    rows,                                  \* list of (t, metric, value)
    df,                                    \* the returned frame
    pc                                     \* position in simulate

args == << p_indiv0, p_corp0, p_state0, pet0, timesteps, step,
           reg_strength, sec_pressure, innovation, pet_efficiency >>

locals == << delta_C, delta_S, delta_A, total >>

vars == << p_indiv0, p_corp0, p_state0, pet0, timesteps, step,
           reg_strength, sec_pressure, innovation, pet_efficiency,
           A, C, S, P, delta_C, delta_S, delta_A, total, t, rows, df, pc >>

----------------------------------------------------------------------------
(* Number representation *)

\* One unit is 1/SCALE; SCALE stands for the float value 1.0.
SCALE == 10000

\* n hundredths, e.g. Hundredths(5) is 0.05.
Hundredths(n) == n * (SCALE \div 100)

\* n tenths: the literals 0.1 .. 0.6 of the update rule.
Tenths(n) == n * (SCALE \div 10)

\* n / d rounded to the nearest unit (d > 0).
RoundDiv(n, d) == (n \div d) + (IF 2 * (n % d) >= d THEN 1 ELSE 0)

\* Float product x * y.
Mul(x, y) == RoundDiv(x * y, SCALE)

\* Float quotient x / y (y > 0).
Div(x, y) == RoundDiv(x * SCALE, y)

\* As Clip, without the upper bound.
ClipLowOnly(x, lo, hi) == IF x < lo THEN lo ELSE x

\* np.clip(x, lo, hi)
Clip(x, lo, hi) == IF x < lo THEN lo ELSE IF x > hi THEN hi ELSE x

----------------------------------------------------------------------------
(* The update rule, as the loop body computes it *)

\* delta_C of lines 59-63, from the PET adoption p.
DeltaC(p) ==
    Mul( Mul(innovation, SCALE - Mul(p, pet_efficiency))
           - Mul(reg_strength, Tenths(4))
           - Mul(sec_pressure, Tenths(3)),
         step )

\* delta_S of lines 65-69.
DeltaS(p) ==
    Mul( Mul(sec_pressure, Tenths(6))
           + Mul(reg_strength, Tenths(4))
           - Mul(p, Tenths(1)),
         step )

\* As DeltaA, with the state's delta added back instead of taken.
DeltaAWrongSign(dc, ds) == (0 - dc) + ds

\* As DeltaA, without the state's delta.
DeltaAHalf(dc, ds) == 0 - dc

\* delta_A of line 71.
DeltaA(dc, ds) == (0 - dc) - ds

\* Lines 59-76: the shares <<A, C, S>> after the three independent clips,
\* from the quadruple <<a, c, s, p>>.
ClippedShares(a, c, s, p) ==
    LET dc == DeltaC(p)
        ds == DeltaS(p)
        da == DeltaA(dc, ds)
    IN  << Clip(a + da, 0, SCALE), Clip(c + dc, 0, SCALE), Clip(s + ds, 0, SCALE) >>

\* As Normalised, without the division.
NormalisedSkip(a, c, s, tot) == << a, c, s >>

\* As Normalised, with a uniform split when the total is 0.
NormalisedUniform(a, c, s, tot) ==
    IF tot > 0 THEN << Div(a, tot), Div(c, tot), Div(s, tot) >>
               ELSE << Hundredths(34), Hundredths(33), Hundredths(33) >>

\* Lines 78-79 on the clamped shares <<a, c, s>> with their sum tot.
Normalised(a, c, s, tot) ==
    IF tot > 0 THEN << Div(a, tot), Div(c, tot), Div(s, tot) >>
               ELSE << a, c, s >>

\* delta_P of lines 82-88, from the shares a and c.
DeltaP(a, c) ==
    Mul( Mul(reg_strength, Tenths(5))
           + Mul(a, Tenths(3))
           - Mul(innovation, Tenths(2))
           - Mul(sec_pressure, Tenths(2))
           - Mul(c, Tenths(3)),
         step )

\* One whole update of the quadruple q.
StepFn(q) ==
    LET cl == ClippedShares(q[1], q[2], q[3], q[4])
        n  == Normalised(cl[1], cl[2], cl[3], cl[1] + cl[2] + cl[3])
    IN  << n[1], n[2], n[3], Clip(q[4] + DeltaP(n[1], n[2]), 0, SCALE) >>

RECURSIVE Iterate(_, _)
Iterate(q, n) == IF n = 0 THEN q ELSE StepFn(Iterate(q, n - 1))

----------------------------------------------------------------------------
(* Inputs *)

\* Largest timesteps argument explored.
MaxT == 3

\* Initial shares <<p_indiv0, p_corp0, p_state0>>, in hundredths.
ShareInputs ==
    { << 40, 40, 20 >>, << 100, 0, 0 >>, << 0, 100, 0 >>, << 0, 0, 100 >>,
      << 34, 33, 33 >>,                          \* in range, sum 1
      << 0, 0, 0 >>, << 100, 100, 100 >>,        \* in range, sum not 1
      << 150, -25, -25 >>, << -50, -50, -50 >> } \* out of range

PetInputs == { 0, 30, 100, -50, 150 }

StepInputs == { 5, 50, 200, 0, -5 }

\* <<reg_strength, sec_pressure, innovation, pet_efficiency>>, in hundredths.
DialInputs ==
    ({0, 30, 100} \X {0, 20, 100} \X {0, 60, 100} \X {0, 80, 100})
      \cup { << 150, -50, 0, 0 >>, << -50, 150, 150, 150 >>,
             << 150, 150, -50, -50 >>, << -50, -50, 150, -50 >> }

Metrics == << "Individual power", "Corporate power", "State power", "PET adoption" >>

----------------------------------------------------------------------------
(* Reading the recorded rows *)

\* Number of complete quadruples recorded so far.
NQuads == Len(rows) \div 4

\* The values <<A, C, S, P>> recorded at the k-th quadruple (k = 0, 1, ...).
Quad(k) == << rows[4 * k + 1][3], rows[4 * k + 2][3],
              rows[4 * k + 3][3], rows[4 * k + 4][3] >>

ShareSum(q) == q[1] + q[2] + q[3]

InUnit(x) == 0 <= x /\ x <= SCALE

Abs(x) == IF x < 0 THEN 0 - x ELSE x

----------------------------------------------------------------------------
(* simulate *)

\* Entry of simulate: lines 45-48 have run on arbitrary arguments.
Init ==
    /\ \E sh \in ShareInputs :
          /\ p_indiv0 = Hundredths(sh[1])
          /\ p_corp0 = Hundredths(sh[2])
          /\ p_state0 = Hundredths(sh[3])
    /\ \E p \in PetInputs : pet0 = Hundredths(p)
    /\ timesteps \in -1 .. MaxT
    /\ \E s \in StepInputs : step = Hundredths(s)
    /\ \E d \in DialInputs :
          /\ reg_strength = Hundredths(d[1])
          /\ sec_pressure = Hundredths(d[2])
          /\ innovation = Hundredths(d[3])
          /\ pet_efficiency = Hundredths(d[4])
    /\ A = p_indiv0 /\ C = p_corp0 /\ S = p_state0
    /\ P = pet0
    /\ delta_C = 0 /\ delta_S = 0 /\ delta_A = 0 /\ total = 0
    /\ t = 0
    /\ rows = << >>
    /\ df = << >>
    /\ pc = "for"

\* As Emit, with the update applied before the quadruple is recorded.
EmitAfterUpdate ==
    /\ pc = "for"
    /\ t < timesteps + 1
    /\ LET q == StepFn(<< A, C, S, P >>)
       IN  rows' = rows \o << << t, Metrics[1], q[1] >>, << t, Metrics[2], q[2] >>,
                              << t, Metrics[3], q[3] >>, << t, Metrics[4], q[4] >> >>
    /\ pc' = "transfer"
    /\ UNCHANGED << args, A, C, S, P, locals, t, df >>

\* As Emit, with the corporate row recorded before the individual row.
EmitSwapped ==
    /\ pc = "for"
    /\ t < timesteps + 1
    /\ rows' = rows \o << << t, Metrics[2], C >>, << t, Metrics[1], A >>,
                          << t, Metrics[3], S >>, << t, Metrics[4], P >> >>
    /\ pc' = "transfer"
    /\ UNCHANGED << args, A, C, S, P, locals, t, df >>

\* Lines 50-56: the loop takes the next t and records the current quadruple.
Emit ==
    /\ pc = "for"
    /\ t < timesteps + 1
    /\ rows' = rows \o << << t, Metrics[1], A >>, << t, Metrics[2], C >>,
                          << t, Metrics[3], S >>, << t, Metrics[4], P >> >>
    /\ pc' = "transfer"
    /\ UNCHANGED << args, A, C, S, P, locals, t, df >>

\* Lines 59-77: the deltas, the three independent clips and their total.
Transfer ==
    /\ pc = "transfer"
    /\ delta_C' = DeltaC(P)
    /\ delta_S' = DeltaS(P)
    /\ delta_A' = DeltaA(DeltaC(P), DeltaS(P))
    /\ LET cl == ClippedShares(A, C, S, P)
       IN  /\ A' = cl[1] /\ C' = cl[2] /\ S' = cl[3]
           /\ total' = cl[1] + cl[2] + cl[3]
    /\ pc' = "normalise"
    /\ UNCHANGED << args, P, t, rows, df >>

\* Lines 78-79: renormalise unless the total is 0.
Normalise ==
    /\ pc = "normalise"
    /\ LET n == Normalised(A, C, S, total)
       IN  A' = n[1] /\ C' = n[2] /\ S' = n[3]
    /\ pc' = "pet"
    /\ UNCHANGED << args, P, locals, t, rows, df >>

\* As PetDynamics, from the shares recorded at the start of the step.
PetDynamicsStale ==
    /\ pc = "pet"
    /\ P' = Clip(P + DeltaP(Quad(NQuads - 1)[1], Quad(NQuads - 1)[2]), 0, SCALE)
    /\ t' = t + 1
    /\ pc' = "for"
    /\ UNCHANGED << args, A, C, S, locals, rows, df >>

\* As PetDynamics, without the clip.
PetDynamicsNoClip ==
    /\ pc = "pet"
    /\ P' = P + DeltaP(A, C)
    /\ t' = t + 1
    /\ pc' = "for"
    /\ UNCHANGED << args, A, C, S, locals, rows, df >>

\* Lines 82-89: PET dynamics; the iteration ends.
PetDynamics ==
    /\ pc = "pet"
    /\ P' = Clip(P + DeltaP(A, C), 0, SCALE)
    /\ t' = t + 1
    /\ pc' = "for"
    /\ UNCHANGED << args, A, C, S, locals, rows, df >>

\* Lines 91-92: the range is exhausted; build and return the frame.
Return ==
    /\ pc = "for"
    /\ ~ (t < timesteps + 1)
    /\ df' = rows
    /\ pc' = "returned"
    /\ UNCHANGED << args, A, C, S, P, locals, t, rows >>

Next == Emit \/ Transfer \/ Normalise \/ PetDynamics \/ Return

Spec == Init /\ [][Next]_vars

----------------------------------------------------------------------------
(* Claims *)

\* Preconditions of the contract.
SharesInRange == InUnit(p_indiv0) /\ InUnit(p_corp0) /\ InUnit(p_state0)

SharesSumToOne == p_indiv0 + p_corp0 + p_state0 = SCALE

PetInRange == InUnit(pet0)

DialsInRange ==
    /\ InUnit(reg_strength) /\ InUnit(sec_pressure)
    /\ InUnit(innovation) /\ InUnit(pet_efficiency)

\* C1: Simplex invariant. In every run whose initial shares lie in [0,1] and
\* sum to 1, with the four dials in [0,1] and step > 0, the three power values
\* recorded at each timestep sum to 1 (up to the rounding of the three
\* divisions: one unit), unless all three are 0.
C1_Simplex ==
    (SharesInRange /\ SharesSumToOne /\ DialsInRange /\ step > 0) =>
        \A k \in 0 .. NQuads - 1 :
            \/ Abs(ShareSum(Quad(k)) - SCALE) <= 1
            \/ (Quad(k)[1] = 0 /\ Quad(k)[2] = 0 /\ Quad(k)[3] = 0)

\* A valid run in which a clip cut a share (total above 1) and the
\* renormalised quadruple has been recorded.
C1_Witness ==
    /\ SharesInRange /\ SharesSumToOne /\ DialsInRange /\ step > 0
    /\ pc = "transfer" /\ NQuads >= 3
    /\ total > SCALE

\* C2: Range invariant. With initial shares and PET adoption in [0,1], dials
\* in [0,1] and step > 0, every recorded value lies in [0,1].
C2_Range ==
    (SharesInRange /\ PetInRange /\ DialsInRange /\ step > 0) =>
        \A i \in 1 .. Len(rows) : InUnit(rows[i][3])

\* A valid run in which the PET clip and a share clip were both needed,
\* with the clipped values recorded.
C2_Witness ==
    /\ SharesInRange /\ PetInRange /\ DialsInRange /\ step > 0
    /\ pc = "transfer" /\ NQuads >= 2
    /\ total > SCALE
    /\ Quad(NQuads - 2)[4] + DeltaP(Quad(NQuads - 1)[1], Quad(NQuads - 1)[2]) > SCALE
    /\ Quad(NQuads - 1)[4] = SCALE

\* C3 as stated: for out-of-range input too, every value recorded at every
\* timestep from 0 to timesteps lies in [0,1].
C3_AllRowsInRange ==
    \A i \in 1 .. Len(rows) : InUnit(rows[i][3])

\* C3 amended: whatever the shares, PET adoption and dials passed in, every
\* value recorded at a timestep t >= 1 lies in [0,1], the values recorded at
\* t = 0 are the arguments as passed, and a run that returns has recorded all
\* its timesteps.
C3_RowsAfterFirstInRange ==
    /\ \A i \in 1 .. Len(rows) : rows[i][1] >= 1 => InUnit(rows[i][3])
    /\ NQuads >= 1 => Quad(0) = << p_indiv0, p_corp0, p_state0, pet0 >>
    /\ (pc = "returned" /\ timesteps >= 0) => Len(df) = 4 * (timesteps + 1)

\* A returned run on out-of-range shares, PET adoption and dials, whose
\* first quadruple is out of range.
C3_Witness ==
    /\ ~ SharesInRange /\ ~ PetInRange /\ ~ DialsInRange
    /\ pc = "returned" /\ timesteps >= 2
    /\ ~ InUnit(df[1][3]) /\ ~ InUnit(df[4][3])

\* C4: Emit before update. The quadruple recorded at timestep k is the update
\* rule applied exactly k times to the arguments; the one at 0 is the
\* arguments themselves, and with timesteps = 0 the result is those 4 points.
C4_EmitBeforeUpdate ==
    /\ \A k \in 0 .. NQuads - 1 :
          /\ rows[4 * k + 1][1] = k
          /\ Quad(k) = Iterate(<< p_indiv0, p_corp0, p_state0, pet0 >>, k)
    /\ NQuads >= 1 => Quad(0) = << p_indiv0, p_corp0, p_state0, pet0 >>
    /\ (pc = "returned" /\ timesteps = 0) =>
          df = << << 0, Metrics[1], p_indiv0 >>, << 0, Metrics[2], p_corp0 >>,
                  << 0, Metrics[3], p_state0 >>, << 0, Metrics[4], pet0 >> >>

\* A returned run of MaxT steps in which every update changed the quadruple.
C4_Witness ==
    /\ pc = "returned" /\ timesteps >= 2
    /\ \A k \in 0 .. NQuads - 2 : Quad(k) # Quad(k + 1)
    /\ << A, C, S, P >> # Quad(NQuads - 1)

\* C5: Output shape. For timesteps >= 0 the returned frame has exactly
\* 4 * (timesteps + 1) points: for each timestep 0 .. timesteps in ascending
\* order, the four metrics in the order Individual, Corporate, State, PET.
C5_OutputShape ==
    (pc = "returned" /\ timesteps >= 0) =>
        /\ Len(df) = 4 * (timesteps + 1)
        /\ \A i \in 1 .. Len(df) :
              /\ df[i][1] = (i - 1) \div 4
              /\ df[i][2] = Metrics[((i - 1) % 4) + 1]

C5_Witness ==
    /\ pc = "returned" /\ timesteps >= 2
    /\ Len(df) = 4 * (timesteps + 1)
    /\ SharesInRange /\ SharesSumToOne /\ PetInRange /\ DialsInRange /\ step > 0

InvalidParameter == timesteps < 0 \/ step <= 0

\* C6: Invalid parameters fail fast. A call with negative timesteps or a
\* non-positive step ends in an InvalidParameter error: it never returns a
\* frame, and records no point.
C6_FailFast ==
    InvalidParameter => (pc # "returned" /\ rows = << >>)

ZeroShares(q) == q[1] = 0 /\ q[2] = 0 /\ q[3] = 0

\* The total of the clipped shares of the step taken from quadruple q.
ClippedTotal(q) == ShareSum(ClippedShares(q[1], q[2], q[3], q[4]))

\* C7: Degenerate zero total. In a step whose three clipped shares sum to 0
\* the renormalisation changes nothing (no division), the shares are 0 at
\* the next timestep, and the run goes on to record every timestep up to
\* timesteps.
C7_ZeroTotal ==
    /\ [] /\ \A k \in 0 .. NQuads - 2 :
                ClippedTotal(Quad(k)) = 0 => ZeroShares(Quad(k + 1))
          /\ (pc = "pet" /\ total = 0) => (A = 0 /\ C = 0 /\ S = 0)
          /\ (pc = "returned" /\ timesteps >= 0) => Len(df) = 4 * (timesteps + 1)
    /\ [][ (pc = "normalise" /\ total = 0) =>
             (A' = A /\ C' = C /\ S' = S /\ pc' = "pet") ]_vars

\* A returned run that started from non-zero shares, whose every step had a
\* zero clipped total, and that recorded zero shares from timestep 1 on.
C7_Witness ==
    /\ pc = "returned" /\ timesteps >= 2
    /\ ~ ZeroShares(Quad(0))
    /\ \A k \in 0 .. NQuads - 1 : ClippedTotal(Quad(k)) = 0
    /\ \A k \in 1 .. NQuads - 1 : ZeroShares(Quad(k))
    /\ Len(df) = 4 * (timesteps + 1)

\* The reference formulas of the share deltas, from the PET adoption p.
RefDeltaCorporate(p) ==
    Mul( Mul(innovation, SCALE - Mul(p, pet_efficiency))
           - Mul(Tenths(4), reg_strength) - Mul(Tenths(3), sec_pressure), step )

RefDeltaState(p) ==
    Mul( Mul(Tenths(6), sec_pressure) + Mul(Tenths(4), reg_strength)
           - Mul(Tenths(1), p), step )

\* The reference formula of the PET delta, from the shares a and c.
RefDeltaPet(a, c) ==
    Mul( Mul(reg_strength, Tenths(5)) + Mul(a, Tenths(3))
           - Mul(innovation, Tenths(2)) - Mul(sec_pressure, Tenths(2))
           - Mul(c, Tenths(3)), step )

\* No share of the step taken from q leaves [0,1].
NoShareLeavesUnit(q) ==
    /\ InUnit(q[2] + RefDeltaCorporate(q[4]))
    /\ InUnit(q[3] + RefDeltaState(q[4]))
    /\ InUnit(q[1] - RefDeltaCorporate(q[4]) - RefDeltaState(q[4]))

ScenarioA ==
    /\ p_indiv0 = Hundredths(40) /\ p_corp0 = Hundredths(40)
    /\ p_state0 = Hundredths(20) /\ pet0 = Hundredths(30)
    /\ step = Hundredths(5)
    /\ reg_strength = Hundredths(30) /\ sec_pressure = Hundredths(20)
    /\ innovation = Hundredths(60) /\ pet_efficiency = Hundredths(80)

\* C8: Step result against the reference formulas. From a recorded quadruple
\* whose shares sum to 1 and whose step takes no share out of [0,1], the next
\* recorded shares are exactly C + deltaCorporate, S + deltaState and
\* A - deltaCorporate - deltaState (renormalisation changes nothing); in
\* Scenario A the shares recorded at t = 1 are (0.3757, 0.4138, 0.2105).
C8_ReferenceStep ==
    /\ \A k \in 0 .. NQuads - 2 :
          LET q == Quad(k) IN
          (ShareSum(q) = SCALE /\ NoShareLeavesUnit(q)) =>
              /\ Quad(k + 1)[2] = q[2] + RefDeltaCorporate(q[4])
              /\ Quad(k + 1)[3] = q[3] + RefDeltaState(q[4])
              /\ Quad(k + 1)[1] = q[1] - RefDeltaCorporate(q[4]) - RefDeltaState(q[4])
    /\ (ScenarioA /\ NQuads >= 2) =>
          (Quad(1)[1] = 3757 /\ Quad(1)[2] = 4138 /\ Quad(1)[3] = 2105)

\* Scenario A with its t = 1 quadruple recorded after an unclipped step.
C8_Witness ==
    /\ ScenarioA /\ NQuads >= 2
    /\ ShareSum(Quad(0)) = SCALE /\ NoShareLeavesUnit(Quad(0))
    /\ Quad(1) # Quad(0)
    /\ Quad(1)[1] = 3757

\* C9: Ordering inside one step. The PET delta of a step is computed from
\* the shares that the same step has just produced (those recorded at t+1),
\* and the share deltas of the step from the PET adoption recorded at t.
C9_StepOrdering ==
    /\ \A k \in 0 .. NQuads - 2 :
          Quad(k + 1)[4] =
              Clip(Quad(k)[4] + RefDeltaPet(Quad(k + 1)[1], Quad(k + 1)[2]), 0, SCALE)
    /\ (pc \in {"normalise", "pet"}) =>
          /\ delta_C = RefDeltaCorporate(Quad(NQuads - 1)[4])
          /\ delta_S = RefDeltaState(Quad(NQuads - 1)[4])
          /\ P = Quad(NQuads - 1)[4]

\* A step whose PET result differs from what the shares recorded at t would
\* have given, followed by a step whose share deltas differ from what the
\* updated PET adoption would have given.
C9_Witness ==
    /\ pc = "pet" /\ NQuads >= 2
    /\ Quad(1)[4] # Clip(Quad(0)[4] + RefDeltaPet(Quad(0)[1], Quad(0)[2]), 0, SCALE)
    /\ Quad(1)[4] # Quad(0)[4]
    /\ delta_C # RefDeltaCorporate(Clip(P + RefDeltaPet(A, C), 0, SCALE))

\* C10: Zero-sum deltas keep the clipped total at 1 or more. Whenever the
\* shares recorded at the start of a step sum to 1, the clipped total is at
\* least 1 and renormalisation increases no share; in a run started from
\* shares that sum to 1 the total is never 0 when it is tested.
C10_TotalAtLeastOne ==
    /\ [] /\ (pc = "normalise" /\ ShareSum(Quad(NQuads - 1)) = SCALE) => total >= SCALE
          /\ (pc = "normalise" /\ SharesSumToOne) => total > 0
          /\ (SharesSumToOne /\ NQuads >= 1) => ~ ZeroShares(Quad(NQuads - 1))
    /\ [][ (pc = "normalise" /\ ShareSum(Quad(NQuads - 1)) = SCALE) =>
             (A' <= A /\ C' <= C /\ S' <= S) ]_vars

\* A run started from shares summing to 1, in a later step that also starts
\* from shares summing to 1, where clipping has pushed the total above 1.
C10_Witness ==
    /\ SharesSumToOne /\ pc = "normalise" /\ NQuads >= 2
    /\ ShareSum(Quad(NQuads - 1)) = SCALE
    /\ total > SCALE

====
